---- MODULE Spec2Model ----
(***************************************************************************)
(* A model of CodeViewer (src/src/viewer.py), the Textual application of   *)
(* the compiler pipeline explorer: seven stage panels, their visibility    *)
(* flags, the body's column count, the fan-out of set_code and of the      *)
(* line-hover highlight to the panels.                                     *)
(*                                                                         *)
(* The widgets (SourceWidget, TokenWidget, ASTWidget, BytecodeWidget,      *)
(* EditorScreen) are imported by viewer.py and are not part of the source  *)
(* at hand: what a panel does on set_code and highlight is modelled from   *)
(* the specification (sections 4.2, 4.3, 4.5) and marked so below.         *)
(***************************************************************************)
EXTENDS Integers, Sequences, FiniteSets, TLC

(* ------------------------------ bounds --------------------------------- *)

\* source texts are told apart by a body number 1..NumBodies
NumBodies == 1

\* hover events carry a line number 1..MaxLine
MaxLine == 1

\* at most MaxRev set_code calls are made in a run
MaxRev == 2

\* a stage artifact has at most MaxItems items
MaxItems == 3

\* items are attributed to source lines 1..MaxSrcLine
MaxSrcLine == 2

(* --------------------------- stages and panels -------------------------- *)

\* the widget ids of compose(), in the order set_code and on_hover_line
\* address them (the fixed stage order Source .. FinalBytecode)
StageOrder ==
    << "source", "tokens", "ast", "opt-ast", "pseudo-bc", "opt-pseudo-bc",
       "opt-code-obj" >>

StageKinds == { StageOrder[i] : i \in 1..Len(StageOrder) }

\* the three stages that exist only when VERSION_3_13 holds
Only313 == { "opt-ast", "pseudo-bc", "opt-pseudo-bc" }

\* compose(): the panels that exist under a toolchain version
Composed(v313) == IF v313 THEN StageKinds ELSE StageKinds \ Only313

\* set_code forgetting the assembled-bytecode panel
SetCodeOrder_NoCodeObj(v313) ==
    SelectSeq(StageOrder, LAMBDA k : (v313 \/ k \notin Only313) /\ k # "opt-code-obj")

\* the panels CodeViewer.set_code calls set_code on, in call order
SetCodeOrder(v313) == SelectSeq(StageOrder, LAMBDA k : v313 \/ k \notin Only313)

\* on_hover_line without the VERSION_3_13 guard
HoverOrder_Unguarded(v313) == StageOrder

\* the panels on_hover_line calls highlight on, in call order
HoverOrder(v313) == SelectSeq(StageOrder, LAMBDA k : v313 \/ k \notin Only313)

\* the watchers with watch_show_ast missing
HasWatcher_NoAst(v313, k) == (v313 \/ k \notin Only313) /\ k # "ast"

\* watch_show_*: the flags that have a watcher under a toolchain version
HasWatcher(v313, k) == v313 \/ k \notin Only313

\* position of a stage in the fixed order
StageIndex(k) == CHOOSE i \in 1..Len(StageOrder) : StageOrder[i] = k

(* ------------------------------ source texts ---------------------------- *)

\* A source text: a body and the toolchain's verdict on it, fail = 0 when
\* every stage accepts it, fail = i when stage StageOrder[i] rejects it.
Texts == [ body : 1..NumBodies, fail : 0..Len(StageOrder) ]

NoCode == [ body |-> 0, fail |-> 0 ]

\* the panel widget's set_code raises on this text
StageFails(code, k) == code.fail = StageIndex(k)

(* -------------------------------- state --------------------------------- *)

VARIABLES
    version_3_13,       \* VERSION_3_13, read once at import
    editor_class,       \* some composed widget carries the class "editor"
    watched,            \* the flags' watchers have had their initial run
    status,             \* "init" | "running" | "editor" | "crashed"
    show,               \* show_source .. show_code_obj, by panel id
    display,            \* styles.display of each composed panel's parent
    grid_size_columns,  \* #body styles.grid_size_columns
    editor_code,        \* the code held by the editor screen
    content,            \* the code each composed panel holds
    rev,                \* the set_code call that gave each panel its content
    stale,              \* the stale flag of each panel
    hl,                 \* the line each panel highlights, 0 for none
    revision,           \* number of set_code calls made so far
    failed,             \* the stage whose failure left set_code, "" if none
    sent,               \* highlight calls of the last handler: <<panel, line>>
    no_match,           \* the selector query_one found no widget for, "" if none
    items,              \* a stage artifact: the source_line of each item, 0 if absent
    index,              \* the PositionIndex built from items
    query,              \* the line last looked up, 0 before any lookup
    found               \* the result of the last lookup

viewer_vars ==
    << version_3_13, editor_class, watched, status, show, display, grid_size_columns, editor_code,
       content, rev, stale, hl, revision, failed, sent, no_match >>

index_vars == << items, index, query, found >>

vars == << viewer_vars, index_vars >>

Lines == 1..MaxLine

(* ------------------------------- helpers -------------------------------- *)

Min(a, b) == IF a < b THEN a ELSE b

Range(s) == { s[i] : i \in 1..Len(s) }

\* update_visibility: the sum of the seven flags
visible_panels(sh) == Cardinality({ k \in StageKinds : sh[k] })

\* update_visibility: the column count it stores
panel_columns(sh) == Min(visible_panels(sh), 3)

\* grid_size_columns as the stylesheet may give it before any watcher runs
CssColumns == 1..3

\* styles.display as the stylesheet may give it before any watcher runs
CssDisplay == { "block", "none" }

\* the defaults with show_tokens = var(True)
DefaultShow_TokensShown ==
    [ k \in StageKinds |-> k \in { "source", "tokens", "opt-code-obj" } ]

\* the defaults of the reactive flags
DefaultShow == [ k \in StageKinds |-> k \in { "source", "opt-code-obj" } ]

DisplayOf(visible) == IF visible THEN "block" ELSE "none"

(* -------------------------------- Init ---------------------------------- *)

\* The application constructed and composed; neither on_mount nor the initial
\* run of the flags' watchers has happened.  viewer.py has written no style
\* yet: the panels' display and the column count are the stylesheet's.
InitViewer ==
    /\ version_3_13 \in BOOLEAN
    /\ editor_class \in BOOLEAN
    /\ watched = FALSE
    /\ status = "init"
    /\ show = DefaultShow
    /\ display \in [ Composed(version_3_13) -> CssDisplay ]
    /\ grid_size_columns \in CssColumns
    /\ editor_code = NoCode
    /\ content = [ k \in Composed(version_3_13) |-> NoCode ]
    /\ rev = [ k \in Composed(version_3_13) |-> 0 ]
    /\ stale = [ k \in Composed(version_3_13) |-> FALSE ]
    /\ hl = [ k \in Composed(version_3_13) |-> 0 ]
    /\ revision = 0
    /\ failed = ""
    /\ sent = << >>
    /\ no_match = ""

(* ---------------------------- PositionIndex ----------------------------- *)

\* the artifacts: up to MaxItems items, each attributed to a line or to none
Artifacts ==
    UNION { [ 1..n -> 0..MaxSrcLine ] : n \in 0..MaxItems }

\* the index of an artifact without items
EmptyIndex == [ l \in {} |-> {} ]

\* build filing the items that have no source_line under line 1
AddItem_FilesUnattributed(idx, line, i) ==
    LET at == IF line = 0 THEN 1 ELSE line
    IN  [ l \in DOMAIN idx \cup { at } |->
            IF l = at
            THEN (IF l \in DOMAIN idx THEN idx[l] ELSE {}) \cup { i }
            ELSE idx[l] ]

\* one step of build: item i filed under its source_line, skipped if it has none
AddItem(idx, line, i) ==
    IF line = 0
    THEN idx
    ELSE [ l \in DOMAIN idx \cup { line } |->
             IF l = line
             THEN (IF l \in DOMAIN idx THEN idx[l] ELSE {}) \cup { i }
             ELSE idx[l] ]

RECURSIVE BuildFrom(_, _, _)
BuildFrom(its, i, idx) ==
    IF i > Len(its)
    THEN idx
    ELSE BuildFrom(its, i + 1, AddItem(idx, its[i], i))

\* PositionIndex.build(items): one pass over the items
Build(its) == BuildFrom(its, 1, EmptyIndex)

\* PositionIndex.lookup(line): the empty set for a line without items
Lookup(idx, line) == IF line \in DOMAIN idx THEN idx[line] ELSE {}

InitIndex ==
    /\ items = << >>
    /\ index = EmptyIndex
    /\ query = 0
    /\ found = {}

Init == InitViewer /\ InitIndex

\* a stage produces an artifact and its index is built
build ==
    \E its \in Artifacts :
        /\ items' = its
        /\ index' = Build(its)
        /\ query' = 0
        /\ found' = {}
        /\ UNCHANGED viewer_vars

\* a line is looked up, also one past the last attributed line
lookup ==
    \E line \in 1..(MaxSrcLine + 1) :
        /\ query' = line
        /\ found' = Lookup(index, line)
        /\ UNCHANGED << items, index >>
        /\ UNCHANGED viewer_vars

NextIndex == build \/ lookup

\* the index is a pure function of the artifact: one viewer state suffices
IndexInit ==
    /\ Init
    /\ version_3_13
    /\ editor_class
    /\ grid_size_columns = 1
    /\ \A k \in DOMAIN display : display[k] = "block"

SpecIndex == IndexInit /\ [][NextIndex]_vars

(* ------------------------------ set_code -------------------------------- *)

\* query_one over the first n ids of order: the first id no composed widget
\* has, "" if each has one
NoMatch(order, n, v313) ==
    IF \E i \in 1..n : order[i] \notin Composed(v313)
    THEN order[CHOOSE i \in 1..n :
                  /\ order[i] \notin Composed(v313)
                  /\ \A j \in 1..(i - 1) : order[j] \in Composed(v313)]
    ELSE ""

\* index in order of the first panel whose set_code raises, Len + 1 if none
FirstFailure(code, order) ==
    IF \E i \in 1..Len(order) : StageFails(code, order[i])
    THEN CHOOSE i \in 1..Len(order) :
            /\ StageFails(code, order[i])
            /\ \A j \in 1..(i - 1) : ~StageFails(code, order[j])
    ELSE Len(order) + 1

\* the panels whose set_code returned before the call ended
Refreshed(code, order) == { order[i] : i \in 1..(FirstFailure(code, order) - 1) }

\* the stage whose exception leaves CodeViewer.set_code, "" if none
Raised(code, order) ==
    IF FirstFailure(code, order) <= Len(order)
    THEN order[FirstFailure(code, order)]
    ELSE ""

\* the id for which a query_one of set_code finds no widget, "" if none
SetCodeNoMatch(code) ==
    LET order == SetCodeOrder(version_3_13)
    IN  NoMatch(order, Min(FirstFailure(code, order), Len(order)), version_3_13)

\* set_code is left by an exception
SetCodeLeft(code) ==
    Raised(code, SetCodeOrder(version_3_13)) # "" \/ SetCodeNoMatch(code) # ""

\* set_code also putting the panels back to their default visibility
set_code_resets_view(code) ==
    LET order == SetCodeOrder(version_3_13)
        done  == Refreshed(code, order)
    IN  /\ revision < MaxRev
        /\ revision' = revision + 1
        /\ editor_code' = code
        /\ content' = [ k \in DOMAIN content |-> IF k \in done THEN code ELSE content[k] ]
        /\ rev' = [ k \in DOMAIN rev |-> IF k \in done THEN revision + 1 ELSE rev[k] ]
        /\ hl' = hl
        /\ failed' = Raised(code, order)
        /\ sent' = << >>
        /\ show' = DefaultShow
        /\ display' = [ k \in DOMAIN display |-> DisplayOf(DefaultShow[k]) ]
        /\ grid_size_columns' = panel_columns(DefaultShow)
        /\ UNCHANGED << version_3_13, editor_class, watched, stale >>
        /\ UNCHANGED index_vars

\* CodeViewer.set_code(code): the editor first, then each panel in order,
\* no handler around any call and no call that clears a highlight.  A panel
\* whose set_code returns holds the new text; one that raises, or is not
\* reached, is left as it was.  The panels' highlights are not touched.
set_code(code) ==
    LET order == SetCodeOrder(version_3_13)
        done  == Refreshed(code, order)
    IN  /\ revision < MaxRev
        /\ revision' = revision + 1
        /\ editor_code' = code
        /\ content' = [ k \in DOMAIN content |-> IF k \in done THEN code ELSE content[k] ]
        /\ rev' = [ k \in DOMAIN rev |-> IF k \in done THEN revision + 1 ELSE rev[k] ]
        /\ hl' = hl
        /\ failed' = Raised(code, order)
        /\ sent' = << >>
        /\ UNCHANGED << version_3_13, editor_class, watched, show, display, grid_size_columns, stale >>
        /\ UNCHANGED index_vars

\* on_mount: set_code(startup_code), then query_one(".editor").focus(); the
\* query raises when no widget carries the class, and nothing catches it or
\* an exception of set_code
on_mount ==
    /\ status = "init"
    /\ \E code \in Texts :
          /\ set_code(code)
          /\ no_match' = IF SetCodeLeft(code) THEN SetCodeNoMatch(code)
                         ELSE IF editor_class THEN "" ELSE ".editor"
          /\ status' = IF ~SetCodeLeft(code) /\ editor_class
                       THEN "running" ELSE "crashed"

\* the initial run of the watchers of the seven flags, each with its flag's
\* default, once, before any event is handled
init_watchers ==
    /\ ~watched
    /\ status \in { "init", "running" }
    /\ watched' = TRUE
    /\ LET order == SelectSeq(StageOrder, LAMBDA k : HasWatcher(version_3_13, k))
       IN  /\ display' = [ k \in DOMAIN display |->
                             IF k \in Range(order) THEN DisplayOf(show[k])
                             ELSE display[k] ]
           /\ grid_size_columns' =
                 IF order = << >> THEN grid_size_columns ELSE panel_columns(show)
           /\ no_match' = NoMatch(order, Len(order), version_3_13)
           /\ status' = IF no_match' = "" THEN status ELSE "crashed"
    /\ UNCHANGED << version_3_13, editor_class, show, editor_code, content, rev,
                    stale, hl, revision, failed, sent >>
    /\ UNCHANGED index_vars

\* action_open_editor: push the editor screen
action_open_editor ==
    /\ status = "running"
    /\ watched
    /\ status' = "editor"
    /\ sent' = << >>
    /\ UNCHANGED << version_3_13, editor_class, watched, show, display, grid_size_columns, editor_code,
                    content, rev, stale, hl, revision, failed, no_match >>
    /\ UNCHANGED index_vars

\* update_code without the "is not None" test: the missing text is stored
update_code_none_stored ==
    /\ status = "editor"
    /\ set_code(NoCode)
    /\ no_match' = ""
    /\ status' = "running"

\* update_code(None): the editor dismissed with no change
update_code_none ==
    /\ status = "editor"
    /\ status' = "running"
    /\ UNCHANGED << version_3_13, editor_class, watched, show, display, grid_size_columns, editor_code,
                    content, rev, stale, hl, revision, failed, sent, no_match >>
    /\ UNCHANGED index_vars

\* update_code(code): the editor dismissed with a text
update_code ==
    /\ status = "editor"
    /\ \E code \in Texts :
          /\ set_code(code)
          /\ no_match' = SetCodeNoMatch(code)
          /\ status' = IF SetCodeLeft(code) THEN "crashed" ELSE "running"

(* ------------------------------- toggles -------------------------------- *)

\* action_toggle_*: flip the flag; the flag's watcher, when the version
\* defines one, runs update_visibility with the new value
action_toggle(k) ==
    /\ status = "running"
    /\ watched
    /\ show' = [ show EXCEPT ![k] = ~show[k] ]
    /\ IF HasWatcher(version_3_13, k)
       THEN IF k \in Composed(version_3_13)
            THEN /\ display' = [ display EXCEPT ![k] = DisplayOf(show'[k]) ]
                 /\ grid_size_columns' = panel_columns(show')
                 /\ UNCHANGED << status, no_match >>
            ELSE /\ no_match' = k
                 /\ status' = "crashed"
                 /\ UNCHANGED << display, grid_size_columns >>
       ELSE UNCHANGED << display, grid_size_columns, status, no_match >>
    /\ sent' = << >>
    /\ UNCHANGED << version_3_13, editor_class, watched, editor_code, content, rev, stale, hl,
                    revision, failed >>
    /\ UNCHANGED index_vars

action_toggle_source == action_toggle("source")
action_toggle_tokens == action_toggle("tokens")
action_toggle_ast == action_toggle("ast")
action_toggle_opt_ast == action_toggle("opt-ast")
action_toggle_pseudo_bc == action_toggle("pseudo-bc")
action_toggle_opt_pseudo_bc == action_toggle("opt-pseudo-bc")
action_toggle_code_obj == action_toggle("opt-code-obj")

(* -------------------------------- hover --------------------------------- *)

\* the panel widget's highlight(lineno): a hidden panel ignores the
\* instruction and keeps its highlight, a displayed one takes the line
PanelHighlight(old, shown, lineno) == IF shown THEN lineno ELSE old

\* on_hover_line treating a hover of the line a panel already highlights as
\* leaving that line
on_hover_line_unhover(lineno) ==
    LET order == HoverOrder(version_3_13)
    IN  /\ status = "running"
        /\ watched
        /\ sent' = [ i \in 1..Len(order) |-> << order[i], lineno >> ]
        /\ hl' = [ k \in DOMAIN hl |->
                     IF k \in Range(order)
                     THEN PanelHighlight(hl[k], display[k] = "block",
                                         IF hl[k] = lineno THEN 0 ELSE lineno)
                     ELSE hl[k] ]
        /\ no_match' = NoMatch(order, Len(order), version_3_13)
        /\ status' = IF no_match' = "" THEN "running" ELSE "crashed"
        /\ UNCHANGED << version_3_13, editor_class, watched, show, display, grid_size_columns,
                        editor_code, content, rev, stale, revision, failed >>
        /\ UNCHANGED index_vars

\* on_hover_line(message): highlight(message.lineno) on each panel in order
on_hover_line(lineno) ==
    LET order == HoverOrder(version_3_13)
    IN  /\ status = "running"
        /\ watched
        /\ sent' = [ i \in 1..Len(order) |-> << order[i], lineno >> ]
        /\ hl' = [ k \in DOMAIN hl |->
                     IF k \in Range(order)
                     THEN PanelHighlight(hl[k], display[k] = "block", lineno)
                     ELSE hl[k] ]
        /\ no_match' = NoMatch(order, Len(order), version_3_13)
        /\ status' = IF no_match' = "" THEN "running" ELSE "crashed"
        /\ UNCHANGED << version_3_13, editor_class, watched, show, display, grid_size_columns,
                        editor_code, content, rev, stale, revision, failed >>
        /\ UNCHANGED index_vars

hover == \E lineno \in Lines : on_hover_line(lineno)

(* ----------------------------- specification ---------------------------- *)

Next ==
    \/ on_mount
    \/ init_watchers
    \/ action_open_editor
    \/ update_code_none
    \/ update_code
    \/ action_toggle_source
    \/ action_toggle_tokens
    \/ action_toggle_ast
    \/ action_toggle_opt_ast
    \/ action_toggle_pseudo_bc
    \/ action_toggle_opt_pseudo_bc
    \/ action_toggle_code_obj
    \/ hover

Spec == Init /\ [][Next]_vars

(* ------------------------------- claims --------------------------------- *)

\* the panels a handler addressed a highlight call to
Receivers == { sent[i][1] : i \in 1..Len(sent) }

\* a set_code call returned normally in this step
SetCodeSucceeded == revision' = revision + 1 /\ failed' = ""

\* a set_code call was left by a stage failure in this step
SetCodeFailed == revision' = revision + 1 /\ failed' # ""

\* C1: in every state reached by toggle actions, on any of the seven stage
\* kinds and in either toolchain version, the body's column count is
\* min(number of visibility flags that are true, 3).
C1_ColumnsFollowFlags ==
    watched => grid_size_columns = Min(visible_panels(show), 3)

\* C2: under the reduced toolchain version, the toggle action of OptimizedAST,
\* PseudoBytecode or OptimizedPseudoBytecode leaves the number of true
\* visibility flags as it was.
C2_UnavailableToggleNoOp ==
    [][ (~version_3_13 /\ \E k \in Only313 : show'[k] # show[k])
            => visible_panels(show') = visible_panels(show) ]_vars

\* C3: after a set_code call that completes, every composed panel holds the
\* content of that call, the latest revision; none holds an older one.
C3_AllPanelsLatestRevision ==
    (failed = "" /\ revision > 0)
        => \A k \in Composed(version_3_13) :
              rev[k] = revision /\ content[k] = editor_code

C3_Witness ==
    /\ revision = 2
    /\ status = "running"
    /\ version_3_13
    /\ \A k \in StageKinds : rev[k] = 2

\* C4: when set_code fails at stage S, every stage before S holds the new
\* revision, and S and every later stage keep their previous revision and are
\* flagged stale.
C4_FailureContainment ==
    [][ SetCodeFailed =>
          \A k \in Composed(version_3_13) :
             IF StageIndex(k) < StageIndex(failed')
             THEN rev'[k] = revision' /\ content'[k] = editor_code'
             ELSE rev'[k] = rev[k] /\ content'[k] = content[k] /\ stale'[k] ]_vars

\* C5: a stage failure raised while set_code runs is caught inside set_code;
\* it reaches neither on_mount nor the editor callback, and the application
\* goes on handling events.
C5_FailureNeverEscapes == failed = ""

\* C6: when a stage fails during set_code, every panel's content and the
\* editor's text are what they were before the call.
C6_RollBackOnFailure ==
    [][ SetCodeFailed => content' = content /\ editor_code' = editor_code ]_vars

\* C7: a set_code call that completes leaves no panel with a highlight, and
\* none gets one until the next hover event.
C7_SetCodeClearsHighlight ==
    [][ /\ SetCodeSucceeded => \A k \in Composed(version_3_13) : hl'[k] = 0
        /\ ((\A k \in Composed(version_3_13) : hl[k] = 0) /\ sent' = << >>)
              => \A k \in Composed(version_3_13) : hl'[k] = 0 ]_vars

\* C8: on a line-hover event a highlight instruction goes only to the panels
\* whose stage kind is visible.
C8_OnlyVisibleReceive == \A k \in Receivers : show[k]

\* C9: handling the hover event of a line twice in a row leaves every panel's
\* highlight as handling it once did.
C9_HoverIdempotent ==
    [][ (sent # << >> /\ sent' = sent) => hl' = hl ]_vars

C9_Witness ==
    /\ sent # << >>
    /\ \E k \in Composed(version_3_13) : hl[k] = 1 /\ sent[1] = << "source", 1 >>

\* C10: once a hover event of line L is handled, every panel that received the
\* broadcast highlights L; no two of them highlight different lines.
C10_ReceiversHighlightLine ==
    \A i \in 1..Len(sent) : hl[sent[i][1]] = sent[i][2]

\* some toggle action
toggle == \E k \in StageKinds : action_toggle(k)

\* C11: panel content is recomputed only by set_code: toggles, hovers and
\* opening the editor leave every panel's content and the editor's text as
\* they were; the editor dismissed with no change makes no set_code call and
\* changes none of them; dismissed with a text it makes one set_code call
\* with that text.
C11_OnlySetCodeRecomputes ==
    [][ /\ (toggle \/ hover \/ action_open_editor \/ update_code_none
               \/ init_watchers)
            => /\ revision' = revision
               /\ content' = content
               /\ rev' = rev
               /\ editor_code' = editor_code
        /\ update_code
            => /\ revision' = revision + 1
               /\ editor_code' \in Texts
               /\ \A k \in Composed(version_3_13) :
                     rev'[k] = revision' => content'[k] = editor_code' ]_vars

C11_Witness ==
    /\ revision = 2
    /\ status = "running"
    /\ show["tokens"]
    /\ sent # << >>
    /\ \A k \in Composed(version_3_13) : rev[k] = 2

\* C12: the visibility flags change only in toggle actions: set_code
\* (completing or failing), hovers and opening or dismissing the editor leave
\* the seven flags, the panels' display and the column count as they were.
C12_OnlyTogglesChangeVisibility ==
    [][ /\ (on_mount \/ update_code \/ update_code_none \/ action_open_editor
               \/ hover)
            => /\ show' = show
               /\ display' = display
               /\ grid_size_columns' = grid_size_columns
        /\ init_watchers => show' = show ]_vars

C12_Witness ==
    /\ status = "crashed"
    /\ failed = "ast"
    /\ show["tokens"]
    /\ ~show["source"]
    /\ grid_size_columns = 2

\* C13: the toggle of an available stage kind k flips k's flag and no other,
\* and a second toggle of k right after it brings back the flags and the
\* column count there were before the first.
C13_ToggleTwiceRestores ==
    [][ \A k \in Composed(version_3_13) :
          action_toggle(k)
            => /\ show' = [ show EXCEPT ![k] = ~show[k] ]
               /\ [ show' EXCEPT ![k] = ~show'[k] ] = show
               /\ panel_columns([ show' EXCEPT ![k] = ~show'[k] ])
                     = grid_size_columns ]_vars

\* C14: at startup, before any toggle, exactly Source and FinalBytecode are
\* visible: the number of visible stages is 2, and so is the column count
\* once the flags' watchers have had their initial run.
C14_StartupVisibility ==
    [][ /\ (status = "init" \/ ~watched)
            => /\ { k \in StageKinds : show[k] } = { "source", "opt-code-obj" }
               /\ visible_panels(show) = 2
        /\ init_watchers => grid_size_columns' = 2
        /\ (status = "init" /\ watched) => grid_size_columns = 2 ]_vars

C14_Witness ==
    /\ watched
    /\ status = "init"
    /\ { k \in StageKinds : show[k] } = { "source", "opt-code-obj" }
    /\ grid_size_columns = 2

\* C15: lookup(line) returns only indices of the artifact's items whose
\* source_line is line; an item without source_line is returned for no line,
\* and a line without items yields the empty set.
C15_LookupSound ==
    /\ query # 0
         => /\ \A i \in found : i \in 1..Len(items) /\ items[i] = query
            /\ (\A i \in 1..Len(items) : items[i] # query) => found = {}
    /\ \A l \in DOMAIN index :
          \A i \in index[l] : i \in 1..Len(items) /\ items[i] = l /\ l # 0

C15_Witness ==
    /\ items = << 1, 0, 1 >>
    /\ query = 1
    /\ found = { 1, 3 }

\* C16: the panel of every stage kind of the active toolchain version is
\* displayed exactly when its visibility flag is true.
C16_DisplayFollowsFlag ==
    watched => \A k \in Composed(version_3_13) : display[k] = DisplayOf(show[k])

C16_Witness ==
    /\ status = "running"
    /\ show["tokens"] /\ display["tokens"] = "block"
    /\ ~show["source"] /\ display["source"] = "none"

\* C17: no handler addresses a panel the active toolchain version has not
\* composed: under the reduced version only Source, Tokens, AST and
\* FinalBytecode are touched, also by the toggles of the three other kinds;
\* under the full version set_code and highlight reach exactly the seven.
C17_OnlyComposedPanelsAddressed ==
    /\ no_match \notin StageKinds
    /\ DOMAIN display = Composed(version_3_13)
    /\ sent # << >> => Receivers = Composed(version_3_13)
    /\ (revision > 0 /\ failed = "")
          => { k \in DOMAIN rev : rev[k] = revision } = Composed(version_3_13)
    /\ Composed(version_3_13) =
          IF version_3_13 THEN StageKinds
          ELSE { "source", "tokens", "ast", "opt-code-obj" }

C17_Witness ==
    /\ ~version_3_13
    /\ show["opt-ast"]
    /\ revision = 2
    /\ status = "running"
    /\ sent # << >>

\* C18: the code held by the editor screen is the code held by the Source
\* panel after any sequence of set_code calls, completing or failing.
C18_EditorShowsSource == editor_code = content["source"]
====
